---- MODULE Spec2Model ----
(***************************************************************************)
(* Model of the CMMS application in src/app.py: the SQLite store created   *)
(* by init_db (work_orders, spare_parts, wo_parts, stock_txn,              *)
(* activity_reports, with their UNIQUE / CHECK / FOREIGN KEY rules), the   *)
(* Supabase spare_parts table used by tambah_atau_update_part, and one     *)
(* action per form handler of the pages.  The handlers of page_workorders  *)
(* and page_inventory that make several run_query calls are also modelled  *)
(* call by call, for two sessions that run at the same time.               *)
(*                                                                         *)
(* Text values whose format matters are sequences of one-character         *)
(* strings.  REAL quantities are integers; hours are kept in hundredths    *)
(* (the two decimals round(.., 2) keeps).  A datetime is <<day, minute>>,  *)
(* None / SQL NULL is <<>> for datetimes and 0 for row references.         *)
(***************************************************************************)
EXTENDS Integers, Sequences, FiniteSets, TLC

\* ------------------------------------------------------------------ bounds
MaxDay == 1          \* the clock runs over days 0..MaxDay
MaxWO == 2           \* work_orders ids handed out
MaxParts == 2        \* spare_parts ids handed out
MaxTxn == 2          \* stock_txn ids handed out
MaxWOParts == 2      \* wo_parts ids handed out
MaxAct == 2          \* activity_reports ids handed out
MaxXls == 1          \* rows of an uploaded Excel sheet
MaxSb == 2           \* rows in the Supabase spare_parts table
MaxWOInv == 1        \* work orders created while the inventory is explored
MaxPm == 2           \* pm_plans ids in an uploaded CSV file
MaxFail == 1         \* handler runs that end in an exception

\* ------------------------------------------------------- text and time
DigitChar == <<"0", "1", "2", "3", "4", "5", "6", "7", "8", "9">>

Dig(n) == DigitChar[n + 1]

RECURSIVE Digits(_)
\* str(n) for n >= 0
Digits(n) == IF n < 10 THEN <<Dig(n)>> ELSE Digits(n \div 10) \o <<Dig(n % 10)>>

RECURSIVE ZeroPad(_, _)
\* the d-format with a minimum width and zero fill: f"{n:0{w}d}"
ZeroPad(s, w) == IF Len(s) >= w THEN s ELSE ZeroPad(<<"0">> \o s, w)

\* day index d stands for the calendar date 2025-01-1d
StrfYmd(d) == <<"2", "0", "2", "5", "0", "1", "1", Dig(d)>>

DateIso(d) == <<"2", "0", "2", "5", "-", "0", "1", "-", "1", Dig(d)>>

\* datetime.now().isoformat(): the date, "T", then the time of day, which
\* no query of the program looks at
NowIso(d) == DateIso(d) \o <<"T">>

\* SQL:  s LIKE p || '%'   for a pattern p without wildcards
LikePrefix(s, p) == Len(s) >= Len(p) /\ SubSeq(s, 1, Len(p)) = p

\* datetime.combine(date, time) and (end - start).total_seconds() / 60
Minutes(dt) == dt[1] * 1440 + dt[2]

\* round(x / 60, 2) in hundredths of an hour, x a whole number of minutes:
\* x * 100 / 60 = 5x / 3 is never half-way between two integers
RoundHundredths(x) ==
    IF x >= 0 THEN (10 * x + 3) \div 6 ELSE 0 - ((10 * (0 - x) + 3) \div 6)

\* the characters of a date text in their collating (ASCII) order
CharRank(c) == IF c = "-" THEN 0 ELSE 1 + CHOOSE n \in 0..9 : Dig(n) = c

RECURSIVE TextLe(_, _)
\* SQL:  a <= b  for two TEXT values (BINARY collation)
TextLe(a, b) ==
    IF a = <<>> THEN TRUE
    ELSE IF b = <<>> THEN FALSE
    ELSE IF Head(a) = Head(b) THEN TextLe(Tail(a), Tail(b))
    ELSE CharRank(Head(a)) < CharRank(Head(b))

\* SQL:  date(s)  for a text s that starts with YYYY-MM-DD; NULL (<<>>) otherwise
SqlDate(s) == IF Len(s) >= 10 THEN SubSeq(s, 1, 10) ELSE <<>>

calc_downtime(start_dt, end_dt) ==
    IF start_dt = <<>> \/ end_dt = <<>> THEN 0
    ELSE RoundHundredths(Minutes(end_dt) - Minutes(start_dt))

\* ------------------------------------------------------------ input sets
Statuses == {"Open", "In Progress", "On Hold", "Closed", "Cancelled"}
Titles == {"", "Pump"}
Costs == {0, 1}
\* (date_input, time_input) pairs offered to the forms
DateTimes == {<<0, 1400>>, <<1, 60>>}
Kodes == {"", "K1"}
Names == {"", "Bolt"}
Stocks == {1}        \* number_input(min_value=0.0)
MinStocks == {1}     \* number_input(min_value=0.0)
Qtys == {0, 1}       \* number_input(min_value=0.0, value=1.0)
SbKodes == {"", "K1", "K2"}
SbNames == {"", "Bolt", "Nut"}
ActTimes == {<<0, 480>>, <<0, 481>>, <<0, 540>>, <<1, 0>>}
SbStocks == {0, 1}   \* number_input(min_value=0, value=0)
Keywords == {"", "K1"}

VARIABLES today, work_orders, spare_parts, wo_parts, stock_txn,
          activity_reports, pm_plans, sqlite_sequence, sb_spare_parts,
          screen, sessions, failures, lastOp

vars == <<today, work_orders, spare_parts, wo_parts, stock_txn,
          activity_reports, pm_plans, sqlite_sequence, sb_spare_parts,
          screen, sessions, failures, lastOp>>

Tables == {"work_orders", "spare_parts", "wo_parts", "stock_txn", "activity_reports",
           "pm_plans"}

\* the browser sessions that use the application at the same time
Users == {"u1", "u2"}

\* a session between two button clicks; the fields are the locals of the
\* handler that is running (pc says which statement comes next), and seen,
\* the number of work_orders rows inserted so far when make_wo_no counted
Idle == [pc |-> "idle", wo_no |-> <<>>, title |-> "", day |-> 0, seen |-> 0,
         wo_id |-> 0, pid |-> 0, qty |-> 0, stock_seen |-> 0]

\* what the page last rendered: the dashboard metrics, or the rows of a list
Rendered(page, keyword, open_wo, overdue_pm, low_stock, rows) ==
    [page |-> page, keyword |-> keyword, open_wo |-> open_wo,
     overdue_pm |-> overdue_pm, low_stock |-> low_stock, rows |-> rows]

\* lastOp: the handler that ran last, whether it went through (no exception,
\* no rejected input), and for a part save whether its kode_barang was already
\* stored under another nama_barang
OpDup(name, ok, dup) == [op |-> name, ok |-> ok, dup |-> dup]

Op(name, ok) == OpDup(name, ok, FALSE)

Init ==
    /\ today = 0
    /\ work_orders = {}
    /\ spare_parts = {}
    /\ wo_parts = {}
    /\ stock_txn = {}
    /\ activity_reports = {}
    /\ pm_plans = {}
    /\ screen = Rendered("", "", 0, 0, 0, {})
    /\ sessions = [u \in Users |-> Idle]
    /\ failures = 0
    /\ sqlite_sequence = [t \in Tables |-> 0]
    /\ sb_spare_parts = <<>>
    /\ lastOp = Op("init", TRUE)

\* AUTOINCREMENT: one more than the largest id the table ever held
NextId(t) == sqlite_sequence[t] + 1

\* the clock passes midnight
Tick ==
    /\ today < MaxDay
    /\ today' = today + 1
    /\ lastOp' = Op("Tick", TRUE)
    /\ UNCHANGED <<work_orders, spare_parts, wo_parts, stock_txn,
                   activity_reports, sqlite_sequence, sb_spare_parts,
                   pm_plans, screen, sessions, failures>>

\* ---------------------------------------------------------- work orders
\* a variant that also counts the numbers other sessions already hold
make_wo_no_reserving(d) ==
    LET pat == StrfYmd(d)
        c == Cardinality({w \in work_orders : LikePrefix(w.created_at, pat)})
             + Cardinality({v \in Users : sessions[v].pc = "wo_insert"})
    IN <<"W", "O", "-">> \o pat \o <<"-">> \o ZeroPad(Digits(c + 1), 3)

make_wo_no(d) ==
    LET pat == StrfYmd(d)
        c == Cardinality({w \in work_orders : LikePrefix(w.created_at, pat)})
    IN <<"W", "O", "-">> \o pat \o <<"-">> \o ZeroPad(Digits(c + 1), 3)

\* the row the INSERT of page_workorders stores: the columns it names, and
\* the schema DEFAULT for those it leaves out
\* a variant that files the new order as already started
NewWORowInProgress(id, wo_no, title, created_at) ==
    [id |-> id, wo_no |-> wo_no, title |-> title, status |-> "In Progress",
     created_at |-> created_at,
     start_time |-> <<>>, end_time |-> <<>>, downtime_hours |-> 0, cost |-> 0]

NewWORow(id, wo_no, title, created_at) ==
    [id |-> id, wo_no |-> wo_no, title |-> title, status |-> "Open",
     created_at |-> created_at,
     start_time |-> <<>>, end_time |-> <<>>, downtime_hours |-> 0, cost |-> 0]

\* "Buat WO": make_wo_no reads the clock, the INSERT reads it again
\* a variant on a table without the UNIQUE rule on wo_no
CreateWOAnyNumber(title, dIns) ==
    LET wo_no == make_wo_no(today)
        row == NewWORow(NextId("work_orders"), wo_no, title, NowIso(dIns))
    IN /\ NextId("work_orders") <= MaxWO
       /\ today' = dIns
       /\ work_orders' = work_orders \cup {row}
       /\ sqlite_sequence' = [sqlite_sequence EXCEPT !["work_orders"] = row.id]
       /\ lastOp' = Op("CreateWO", TRUE)
       /\ UNCHANGED <<spare_parts, wo_parts, stock_txn, activity_reports,
                      sb_spare_parts, pm_plans, screen, sessions, failures>>

CreateWOWith(title, dIns) ==
    LET wo_no == make_wo_no(today)
        row == NewWORow(NextId("work_orders"), wo_no, title, NowIso(dIns))
        unique == \A w \in work_orders : w.wo_no # wo_no
    IN /\ NextId("work_orders") <= MaxWO
       /\ today' = dIns
       /\ IF unique
            THEN /\ work_orders' = work_orders \cup {row}
                 /\ sqlite_sequence' = [sqlite_sequence EXCEPT !["work_orders"] = row.id]
                 /\ lastOp' = Op("CreateWO", TRUE)
            ELSE \* sqlite3.IntegrityError: UNIQUE constraint failed
                 /\ UNCHANGED <<work_orders, sqlite_sequence>>
                 /\ lastOp' = Op("CreateWO", FALSE)
       /\ UNCHANGED <<spare_parts, wo_parts, stock_txn, activity_reports,
                      sb_spare_parts, pm_plans, screen, sessions, failures>>

CreateWO ==
    \E title \in Titles, dIns \in {d \in {today, today + 1} : d <= MaxDay} :
        CreateWOWith(title, dIns)

\* a variant that keeps a finished work order finished
UpdateWOUnlessFinished(w, new_status, s, e, cost) ==
    LET downtime == calc_downtime(s, e)
        row == [w EXCEPT !.status = new_status,
                         !.start_time = s, !.end_time = e,
                         !.downtime_hours = downtime, !.cost = cost]
    IN /\ w.status \notin {"Closed", "Cancelled"} \/ new_status = w.status
       /\ work_orders' = (work_orders \ {w}) \cup {row}
       /\ lastOp' = Op("UpdateWO", TRUE)
       /\ UNCHANGED <<today, spare_parts, wo_parts, stock_txn,
                      activity_reports, sqlite_sequence, sb_spare_parts,
                      pm_plans, screen, sessions, failures>>

\* "Simpan Perubahan WO"
UpdateWOWith(w, new_status, s, e, cost) ==
    LET downtime == calc_downtime(s, e)
        row == [w EXCEPT !.status = new_status,
                         !.start_time = s, !.end_time = e,
                         !.downtime_hours = downtime, !.cost = cost]
    IN /\ work_orders' = (work_orders \ {w}) \cup {row}
       /\ lastOp' = Op("UpdateWO", TRUE)
       /\ UNCHANGED <<today, spare_parts, wo_parts, stock_txn,
                      activity_reports, sqlite_sequence, sb_spare_parts,
                   pm_plans, screen, sessions, failures>>

UpdateWO ==
    \E w \in work_orders, new_status \in Statuses,
       s \in DateTimes, e \in DateTimes, cost \in Costs :
        UpdateWOWith(w, new_status, s, e, cost)

\* ------------------------------------------------------------ inventory
\* FOREIGN KEY actions of init_db for DELETE FROM spare_parts WHERE id IN ids:
\* stock_txn.part_id ON DELETE CASCADE, wo_parts.part_id ON DELETE SET NULL
TxnAfterPartDelete(txns, ids) == {t \in txns : t.part_id \notin ids}

WOPartsAfterPartDelete(wps, ids) ==
    {IF p.part_id \in ids THEN [p EXCEPT !.part_id = 0] ELSE p : p \in wps}

\* ... and for DELETE FROM work_orders WHERE id IN ids:
\* wo_parts.wo_id ON DELETE CASCADE, stock_txn.wo_id ON DELETE SET NULL
WOPartsAfterWODelete(wps, ids) == {p \in wps : p.wo_id \notin ids}

TxnAfterWODelete(txns, ids) ==
    {IF t.wo_id \in ids THEN [t EXCEPT !.wo_id = 0] ELSE t : t \in txns}

PartRow(id, kode, nama, stock, min) ==
    [id |-> id, kode_barang |-> kode, nama_barang |-> nama,
     available_stock |-> stock, minimum_stock |-> min]

\* "Simpan" of part_form, mode Tambah: a plain INSERT
\* is kode stored in rows under a nama_barang other than nama ?
StoredOtherwise(rows, kode, nama) ==
    \E p \in rows : p.kode_barang = kode /\ p.nama_barang # nama

PartTambahWith(kode, nama, stock, min) ==
    LET row == PartRow(NextId("spare_parts"), kode, nama, stock, min)
        unique == \A p \in spare_parts : p.kode_barang # kode
        dup == StoredOtherwise(spare_parts, kode, nama)
    IN /\ NextId("spare_parts") <= MaxParts
       /\ IF unique
            THEN /\ spare_parts' = spare_parts \cup {row}
                 /\ sqlite_sequence' = [sqlite_sequence EXCEPT !["spare_parts"] = row.id]
                 /\ lastOp' = OpDup("PartTambah", TRUE, dup)
            ELSE \* UNIQUE constraint failed: spare_parts.kode_barang
                 /\ UNCHANGED <<spare_parts, sqlite_sequence>>
                 /\ lastOp' = OpDup("PartTambah", FALSE, dup)
       /\ UNCHANGED <<today, work_orders, wo_parts, stock_txn,
                      activity_reports, sb_spare_parts,
                   pm_plans, screen, sessions, failures>>

PartTambah ==
    \E kode \in Kodes, nama \in Names, stock \in Stocks, min \in MinStocks :
        PartTambahWith(kode, nama, stock, min)

\* a variant that rewrites the row with INSERT OR REPLACE, which deletes the
\* old row (and, by ON DELETE CASCADE, its stock_txn rows) before inserting
PartUpdateReplace ==
    \E sel \in spare_parts, kode \in Kodes, nama \in Names,
       stock \in Stocks, min \in MinStocks :
        LET row == PartRow(sel.id, kode, nama, stock, min)
            hit == {p \in spare_parts : p.id = sel.id \/ p.kode_barang = kode}
            ids == {p.id : p \in hit}
        IN /\ spare_parts' = (spare_parts \ hit) \cup {row}
           /\ stock_txn' = TxnAfterPartDelete(stock_txn, ids)
           /\ wo_parts' = WOPartsAfterPartDelete(wo_parts, ids)
           /\ lastOp' = Op("PartUpdate", TRUE)
           /\ UNCHANGED <<today, work_orders, activity_reports, sqlite_sequence,
                          sb_spare_parts,
                   pm_plans, screen, sessions, failures>>

\* "Simpan" of part_form, mode Update: UPDATE ... WHERE id = selected_id
PartUpdate ==
    \E sel \in spare_parts, kode \in Kodes, nama \in Names,
       stock \in Stocks, min \in MinStocks :
        LET row == PartRow(sel.id, kode, nama, stock, min)
            unique == \A p \in spare_parts \ {sel} : p.kode_barang # kode
        IN /\ IF unique
                THEN /\ spare_parts' = (spare_parts \ {sel}) \cup {row}
                     /\ lastOp' = Op("PartUpdate", TRUE)
                ELSE /\ UNCHANGED spare_parts
                     /\ lastOp' = Op("PartUpdate", FALSE)
           /\ UNCHANGED <<today, work_orders, wo_parts, stock_txn,
                          activity_reports, sqlite_sequence, sb_spare_parts,
                   pm_plans, screen, sessions, failures>>

\* "Simpan" of part_form, mode Hapus: DELETE ... WHERE id = selected_id
PartHapus ==
    \E sel \in spare_parts :
        /\ spare_parts' = spare_parts \ {sel}
        /\ stock_txn' = TxnAfterPartDelete(stock_txn, {sel.id})
        /\ wo_parts' = WOPartsAfterPartDelete(wo_parts, {sel.id})
        /\ lastOp' = Op("PartHapus", TRUE)
        /\ UNCHANGED <<today, work_orders, activity_reports, sqlite_sequence,
                       sb_spare_parts,
                   pm_plans, screen, sessions, failures>>

\* the id a selectbox of names resolves to; rows sharing a name come from
\* ORDER BY nama_barang in an order SQL leaves open
PartIdsNamed(nama) == {p.id : p \in {q \in spare_parts : q.nama_barang = nama}}

\* a variant that writes the quantity over the stock: SET available_stock = ?
StockAfterOverwrite(pid, delta) ==
    {IF p.id = pid THEN [p EXCEPT !.available_stock = delta] ELSE p : p \in spare_parts}

\* a variant that stops at zero: SET available_stock = MAX(0, available_stock + delta)
StockAfterClamped(pid, delta) ==
    {IF p.id = pid
       THEN [p EXCEPT !.available_stock = IF @ + delta < 0 THEN 0 ELSE @ + delta]
       ELSE p : p \in spare_parts}

\* UPDATE spare_parts SET available_stock = available_stock + delta WHERE id = pid
StockAfter(pid, delta) ==
    {IF p.id = pid THEN [p EXCEPT !.available_stock = @ + delta] ELSE p : p \in spare_parts}

\* a variant that drops the work-order reference
TxnRowNoWO(id, pid, type, qty, wo_id) ==
    [id |-> id, part_id |-> pid, txn_type |-> type, qty |-> qty, wo_id |-> 0]

TxnRow(id, pid, type, qty, wo_id) ==
    [id |-> id, part_id |-> pid, txn_type |-> type, qty |-> qty, wo_id |-> wo_id]

WOPartRow(id, wo_id, pid, qty) ==
    [id |-> id, wo_id |-> wo_id, part_id |-> pid, qty |-> qty]

\* "Tambah IN" of form_stock_in
StockIn ==
    \E pname \in {p.nama_barang : p \in spare_parts}, qty \in Qtys :
      \E pid \in PartIdsNamed(pname) :
        /\ NextId("stock_txn") <= MaxTxn
        /\ spare_parts' = StockAfter(pid, qty)
        /\ stock_txn' = stock_txn \cup {TxnRow(NextId("stock_txn"), pid, "IN", qty, 0)}
        /\ sqlite_sequence' = [sqlite_sequence EXCEPT !["stock_txn"] = @ + 1]
        /\ lastOp' = Op("StockIn", TRUE)
        /\ UNCHANGED <<today, work_orders, wo_parts, activity_reports, sb_spare_parts,
                   pm_plans, screen, sessions, failures>>

\* "Tambah Part ke WO" of the work order picked in "Pilih WO"
ConsumePart ==
    \E w \in work_orders, part_name \in {p.nama_barang : p \in spare_parts},
       qty \in Qtys :
      \E pid \in PartIdsNamed(part_name) :
        /\ NextId("stock_txn") <= MaxTxn
        /\ NextId("wo_parts") <= MaxWOParts
        /\ wo_parts' = wo_parts \cup
             {WOPartRow(NextId("wo_parts"), w.id, pid, qty)}
        /\ spare_parts' = StockAfter(pid, 0 - qty)
        /\ stock_txn' = stock_txn \cup {TxnRow(NextId("stock_txn"), pid, "OUT", qty, w.id)}
        /\ sqlite_sequence' = [sqlite_sequence EXCEPT !["stock_txn"] = @ + 1,
                                                      !["wo_parts"] = @ + 1]
        /\ lastOp' = Op("ConsumePart", TRUE)
        /\ UNCHANGED <<today, work_orders, activity_reports, sb_spare_parts,
                       pm_plans, screen, sessions, failures>>

\* one row of "Impor ke Inventory": INSERT OR REPLACE drops the rows the new
\* one collides with on kode_barang (their FOREIGN KEY actions run) and
\* stores it under a fresh id
ReplaceInto(db, r) ==
    LET hit == {p \in db.parts : p.kode_barang = r.kode}
        ids == {p.id : p \in hit}
    IN [parts |-> (db.parts \ hit) \cup {PartRow(db.seq + 1, r.kode, r.nama, r.stock, r.min)},
        txns |-> TxnAfterPartDelete(db.txns, ids),
        wps |-> WOPartsAfterPartDelete(db.wps, ids),
        seq |-> db.seq + 1]

RECURSIVE ReplaceAll(_, _)
ReplaceAll(db, rows) ==
    IF rows = <<>> THEN db ELSE ReplaceAll(ReplaceInto(db, Head(rows)), Tail(rows))

XlsRow == [kode : Kodes, nama : Names, stock : Stocks, min : MinStocks]

XlsSheets == UNION {[1..n -> XlsRow] : n \in 1..MaxXls}

\* "Impor ke Inventory" of an uploaded sheet
ExcelImportOf(sheet) ==
    LET db == ReplaceAll([parts |-> spare_parts, txns |-> stock_txn,
                          wps |-> wo_parts, seq |-> sqlite_sequence["spare_parts"]],
                         sheet)
        dup == \E i \in 1..Len(sheet) :
                  StoredOtherwise(spare_parts, sheet[i].kode, sheet[i].nama)
    IN /\ db.seq <= MaxParts
       /\ spare_parts' = db.parts
       /\ stock_txn' = db.txns
       /\ wo_parts' = db.wps
       /\ sqlite_sequence' = [sqlite_sequence EXCEPT !["spare_parts"] = db.seq]
       /\ lastOp' = OpDup("ExcelImport", TRUE, dup)
       /\ UNCHANGED <<today, work_orders, activity_reports, sb_spare_parts,
                   pm_plans, screen, sessions, failures>>

ExcelImport == \E sheet \in XlsSheets : ExcelImportOf(sheet)

\* ------------------------------------------------------------- settings
\* SQL NULL in a text column
NullText == "<NULL>"

\* a text cell after df.to_csv and pd.read_csv: the empty string and NULL are
\* both written as an empty field, read back as NaN and bound as NULL
CsvText(s) == IF s = "" THEN NullText ELSE s

SetMax(S) == CHOOSE x \in S : \A y \in S : y <= x

TableRows(t) ==
    CASE t = "work_orders" -> work_orders
      [] t = "spare_parts" -> spare_parts
      [] t = "wo_parts" -> wo_parts
      [] t = "stock_txn" -> stock_txn
      [] t = "activity_reports" -> activity_reports
      [] t = "pm_plans" -> pm_plans

\* the rows pd.read_csv yields for the file "Unduh <t>.csv" of the present table
CsvExport(t) ==
    CASE t = "work_orders" -> {[w EXCEPT !.title = CsvText(@)] : w \in work_orders}
      [] t = "spare_parts" ->
           {[p EXCEPT !.kode_barang = CsvText(@), !.nama_barang = CsvText(@)] :
              p \in spare_parts}
      [] OTHER -> TableRows(t)

\* pm_plans rows as a CSV file lists them (id and next_due_date; the other
\* columns are read by no query of the program)
PmRow == [id : 1..MaxPm, next_due_date : {DateIso(d) : d \in 0..(MaxDay + 1)}]

PmFiles == {f \in SUBSET PmRow : \A r, q \in f : r.id = q.id => r = q}

\* the uploads tried: a header-only file and the export of the present table;
\* for pm_plans, which no form of the program writes, any file of plan rows
CsvFiles(t) == IF t = "pm_plans" THEN PmFiles \cup {CsvExport(t)} ELSE {{}, CsvExport(t)}

\* the store after "Impor CSV" has run its statements, before the commit
CsvStatements(t, overwrite, file) ==
    LET old == IF overwrite THEN TableRows(t) ELSE {}
        gone == {r.id : r \in old}
        db0 == [work_orders |-> work_orders, spare_parts |-> spare_parts,
                wo_parts |-> wo_parts, stock_txn |-> stock_txn,
                activity_reports |-> activity_reports, pm_plans |-> pm_plans]
        db1 == CASE t = "spare_parts" ->
                      [db0 EXCEPT !.stock_txn = TxnAfterPartDelete(@, gone),
                                  !.wo_parts = WOPartsAfterPartDelete(@, gone)]
                 [] t = "work_orders" ->
                      [db0 EXCEPT !.stock_txn = TxnAfterWODelete(@, gone),
                                  !.wo_parts = WOPartsAfterWODelete(@, gone)]
                 [] OTHER -> db0
    IN [db1 EXCEPT ![t] = (db1[t] \ old) \cup file]

\* would executemany raise sqlite3.IntegrityError ?
CsvAccepted(t, overwrite, file) ==
    LET kept == IF overwrite THEN {} ELSE TableRows(t)
        db == CsvStatements(t, overwrite, file)
        pids == {p.id : p \in db.spare_parts}
        wids == {w.id : w \in db.work_orders}
        refs(r) == (r.part_id = 0 \/ r.part_id \in pids) /\ (r.wo_id = 0 \/ r.wo_id \in wids)
    IN /\ \A r \in file : \A k \in kept : r.id # k.id                \* PRIMARY KEY
       /\ CASE t = "work_orders" ->
                 /\ \A r \in file : r.title # NullText               \* NOT NULL
                 /\ \A r \in file : \A k \in db.work_orders :
                        r.wo_no = k.wo_no => r = k                   \* UNIQUE
            [] t = "spare_parts" ->
                 /\ \A r \in file : r.nama_barang # NullText
                 /\ \A r \in file : \A k \in db.spare_parts :
                        (r.kode_barang = k.kode_barang /\ r.kode_barang # NullText) => r = k
            [] t = "stock_txn" -> \A r \in file : refs(r)           \* FOREIGN KEY
            [] t = "wo_parts" -> \A r \in file : refs(r)
            [] OTHER -> TRUE

\* "Impor CSV": optional DELETE FROM, executemany INSERT, one commit
CsvImportOf(t, overwrite, file) ==
    LET db == CsvStatements(t, overwrite, file)
    IN /\ IF CsvAccepted(t, overwrite, file)
            THEN /\ work_orders' = db.work_orders
                 /\ spare_parts' = db.spare_parts
                 /\ wo_parts' = db.wo_parts
                 /\ stock_txn' = db.stock_txn
                 /\ activity_reports' = db.activity_reports
                 /\ pm_plans' = db.pm_plans
                 /\ sqlite_sequence' =
                      [sqlite_sequence EXCEPT
                         ![t] = SetMax({@} \cup {r.id : r \in file})]
                 /\ lastOp' = Op("CsvImport", TRUE)
            ELSE /\ UNCHANGED <<work_orders, spare_parts, wo_parts, stock_txn,
                                activity_reports, pm_plans, sqlite_sequence>>
                 /\ lastOp' = Op("CsvImport", FALSE)
       /\ UNCHANGED <<today, sb_spare_parts, screen, sessions, failures>>

CsvImport(t) ==
    \E overwrite \in BOOLEAN, file \in CsvFiles(t) : CsvImportOf(t, overwrite, file)

\* ------------------------------------------------------ activity reports
\* "Simpan Activity"
SaveActivity ==
    \E s \in ActTimes, e \in ActTimes :
        LET duration == calc_downtime(s, e)
            row == [id |-> NextId("activity_reports"), start_time |-> s,
                    end_time |-> e, duration_hours |-> duration]
        IN /\ NextId("activity_reports") <= MaxAct
           /\ activity_reports' = activity_reports \cup {row}
           /\ sqlite_sequence' = [sqlite_sequence EXCEPT !["activity_reports"] = row.id]
           /\ lastOp' = Op("SaveActivity", TRUE)
           /\ UNCHANGED <<today, work_orders, spare_parts, wo_parts, stock_txn,
                          sb_spare_parts,
                   pm_plans, screen, sessions, failures>>

\* ------------------------------------------- spare parts kept in Supabase
SbRow(kode, nama, stok, min_stok) ==
    [kode_barang |-> kode, nama_barang |-> nama,
     available_stock |-> stok, minimum_stock |-> min_stok]

\* a variant without the select: the row is always inserted
tambah_part(tbl, kode, nama, stok, min_stok) ==
    Append(tbl, SbRow(kode, nama, stok, min_stok))

\* the table after tambah_atau_update_part(kode, nama, .., stok, min_stok)
tambah_atau_update_part(tbl, kode, nama, stok, min_stok) ==
    LET existing == {i \in 1..Len(tbl) : tbl[i].kode_barang = kode}
    IN IF existing # {}
         THEN [i \in 1..Len(tbl) |->
                 IF i \in existing THEN SbRow(kode, nama, stok, min_stok) ELSE tbl[i]]
         ELSE Append(tbl, SbRow(kode, nama, stok, min_stok))

\* the table after hapus_part(kode)
hapus_part(tbl, kode) == SelectSeq(tbl, LAMBDA r : r.kode_barang # kode)

\* the "Simpan" button of the Supabase form
SbRows(tbl) == {tbl[i] : i \in 1..Len(tbl)}

SbSimpanWith(kode, nama, stok, min_stok) ==
    LET tbl == tambah_atau_update_part(sb_spare_parts, kode, nama, stok, min_stok)
        dup == StoredOtherwise(SbRows(sb_spare_parts), kode, nama)
    IN /\ IF kode # "" /\ nama # ""
            THEN /\ Len(tbl) <= MaxSb
                 /\ sb_spare_parts' = tbl
                 /\ lastOp' = OpDup("SbSimpan", TRUE, dup)
            ELSE /\ UNCHANGED sb_spare_parts
                 /\ lastOp' = OpDup("SbSimpan", FALSE, dup)
       /\ UNCHANGED <<today, work_orders, spare_parts, wo_parts, stock_txn,
                      activity_reports, sqlite_sequence,
                   pm_plans, screen, sessions, failures>>

SbSimpan ==
    \E kode \in SbKodes, nama \in SbNames, stok \in Stocks, min_stok \in MinStocks :
        SbSimpanWith(kode, nama, stok, min_stok)

\* the "Hapus" button of the Supabase form
SbHapus ==
    \E kode \in SbKodes :
        /\ IF kode # ""
             THEN /\ sb_spare_parts' = hapus_part(sb_spare_parts, kode)
                  /\ lastOp' = Op("SbHapus", TRUE)
             ELSE /\ UNCHANGED sb_spare_parts
                  /\ lastOp' = Op("SbHapus", FALSE)
        /\ UNCHANGED <<today, work_orders, spare_parts, wo_parts, stock_txn,
                       activity_reports, sqlite_sequence,
                   pm_plans, screen, sessions, failures>>

\* ------------------------------------- handlers of sessions, step by step
\* Every run_query call opens a connection, executes one statement and
\* commits; between two calls of a handler the other session may run.
\* (failures counts the handler runs that an exception of the store ended)
SessFrame == <<today, activity_reports, pm_plans, sb_spare_parts, screen>>

\* "Buat WO", first half: make_wo_no()
SessCreateBegin(u) ==
    \E title \in Titles :
        /\ sessions[u].pc = "idle"
        /\ sqlite_sequence["work_orders"]
             + Cardinality({v \in Users : sessions[v].pc = "wo_insert"}) < MaxWO
        /\ sessions' = [sessions EXCEPT ![u] =
                          [Idle EXCEPT !.pc = "wo_insert", !.wo_no = make_wo_no(today),
                                       !.title = title, !.day = today,
                                       !.seen = sqlite_sequence["work_orders"]]]
        /\ lastOp' = Op("SessCreateBegin", TRUE)
        /\ UNCHANGED <<work_orders, spare_parts, wo_parts, stock_txn, sqlite_sequence>>
        /\ UNCHANGED <<SessFrame, failures>>

\* "Buat WO", second half: the INSERT
SessCreateInsert(u) ==
    LET me == sessions[u]
        row == NewWORow(NextId("work_orders"), me.wo_no, me.title, NowIso(today))
        unique == \A w \in work_orders : w.wo_no # me.wo_no
    IN /\ me.pc = "wo_insert"
       /\ IF unique
            THEN /\ work_orders' = work_orders \cup {row}
                 /\ sqlite_sequence' = [sqlite_sequence EXCEPT !["work_orders"] = row.id]
                 /\ lastOp' = Op("CreateWO", TRUE)
            ELSE \* sqlite3.IntegrityError: UNIQUE constraint failed
                 /\ UNCHANGED <<work_orders, sqlite_sequence>>
                 /\ lastOp' = Op("CreateWO", FALSE)
       /\ sessions' = [sessions EXCEPT ![u] = Idle]
       /\ UNCHANGED <<spare_parts, wo_parts, stock_txn>>
       /\ UNCHANGED <<SessFrame, failures>>

\* stock_txn ids the running handlers will still ask for
PendingTxn == Cardinality({v \in Users : sessions[v].pc \in
                  {"in_update", "in_txn", "out_wopart", "out_update", "out_txn"}})

PendingWOParts == Cardinality({v \in Users : sessions[v].pc = "out_wopart"})

\* FOREIGN KEY checks of an INSERT
PartStored(pid) == \E p \in spare_parts : p.id = pid

WOStored(wo_id) == \E w \in work_orders : w.id = wo_id

\* "Tambah IN": the form is sent, pid is looked up
SessInBegin(u) ==
    \E pname \in {p.nama_barang : p \in spare_parts}, qty \in Qtys :
      \E pid \in PartIdsNamed(pname) :
        /\ sessions[u].pc = "idle"
        /\ sqlite_sequence["stock_txn"] + PendingTxn < MaxTxn
        /\ sessions' = [sessions EXCEPT ![u] =
                          [Idle EXCEPT !.pc = "in_update", !.pid = pid, !.qty = qty]]
        /\ lastOp' = Op("SessInBegin", TRUE)
        /\ UNCHANGED <<work_orders, spare_parts, wo_parts, stock_txn, sqlite_sequence>>
        /\ UNCHANGED <<SessFrame, failures>>

\* "Tambah IN": UPDATE spare_parts SET available_stock = available_stock + ?
SessInUpdate(u) ==
    LET me == sessions[u]
    IN /\ me.pc = "in_update"
       /\ spare_parts' = StockAfter(me.pid, me.qty)
       /\ sessions' = [sessions EXCEPT ![u].pc = "in_txn"]
       /\ lastOp' = Op("SessInUpdate", TRUE)
       /\ UNCHANGED <<work_orders, wo_parts, stock_txn, sqlite_sequence>>
       /\ UNCHANGED <<SessFrame, failures>>

\* "Tambah IN": INSERT INTO stock_txn
SessInTxn(u) ==
    LET me == sessions[u]
    IN /\ me.pc = "in_txn"
       /\ IF PartStored(me.pid)
            THEN /\ stock_txn' = stock_txn \cup
                       {TxnRow(NextId("stock_txn"), me.pid, "IN", me.qty, 0)}
                 /\ sqlite_sequence' = [sqlite_sequence EXCEPT !["stock_txn"] = @ + 1]
                 /\ lastOp' = Op("StockIn", TRUE)
            ELSE \* sqlite3.IntegrityError: FOREIGN KEY constraint failed
                 /\ UNCHANGED <<stock_txn, sqlite_sequence>>
                 /\ lastOp' = Op("StockIn", FALSE)
       /\ sessions' = [sessions EXCEPT ![u] = Idle]
       /\ UNCHANGED <<work_orders, spare_parts, wo_parts>>
       /\ UNCHANGED <<SessFrame, failures>>

\* "Tambah Part ke WO": the page has read the parts, the button is pressed
SessOutBegin(u) ==
    \E w \in work_orders, part_name \in {p.nama_barang : p \in spare_parts},
       qty \in Qtys :
      \E pid \in PartIdsNamed(part_name) :
        /\ sessions[u].pc = "idle"
        /\ sqlite_sequence["stock_txn"] + PendingTxn < MaxTxn
        /\ sqlite_sequence["wo_parts"] + PendingWOParts < MaxWOParts
        /\ sessions' = [sessions EXCEPT ![u] =
                          [Idle EXCEPT !.pc = "out_wopart", !.wo_id = w.id, !.pid = pid,
                                       !.qty = qty,
                                       !.stock_seen =
                                          (CHOOSE p \in spare_parts : p.id = pid).available_stock]]
        /\ lastOp' = Op("SessOutBegin", TRUE)
        /\ UNCHANGED <<work_orders, spare_parts, wo_parts, stock_txn, sqlite_sequence>>
        /\ UNCHANGED <<SessFrame, failures>>

\* "Tambah Part ke WO": INSERT INTO wo_parts
SessOutWOPart(u) ==
    LET me == sessions[u]
    IN /\ me.pc = "out_wopart"
       /\ IF PartStored(me.pid) /\ WOStored(me.wo_id)
            THEN /\ wo_parts' = wo_parts \cup
                       {WOPartRow(NextId("wo_parts"), me.wo_id, me.pid, me.qty)}
                 /\ sqlite_sequence' = [sqlite_sequence EXCEPT !["wo_parts"] = @ + 1]
                 /\ sessions' = [sessions EXCEPT ![u].pc = "out_update"]
                 /\ lastOp' = Op("SessOutWOPart", TRUE)
            ELSE \* sqlite3.IntegrityError: FOREIGN KEY constraint failed
                 /\ UNCHANGED <<wo_parts, sqlite_sequence>>
                 /\ sessions' = [sessions EXCEPT ![u] = Idle]
                 /\ lastOp' = Op("ConsumePart", FALSE)
       /\ UNCHANGED <<work_orders, spare_parts, stock_txn>>
       /\ UNCHANGED <<SessFrame, failures>>

\* a variant that writes back the stock the page had read, less qty
SessOutUpdateStale(u) ==
    LET me == sessions[u]
    IN /\ me.pc = "out_update"
       /\ spare_parts' = StockAfterOverwrite(me.pid, me.stock_seen - me.qty)
       /\ sessions' = [sessions EXCEPT ![u].pc = "out_txn"]
       /\ lastOp' = Op("SessOutUpdate", TRUE)
       /\ UNCHANGED <<work_orders, wo_parts, stock_txn, sqlite_sequence>>
       /\ UNCHANGED <<SessFrame, failures>>

\* "Tambah Part ke WO": UPDATE spare_parts SET available_stock = available_stock - ?
SessOutUpdate(u) ==
    LET me == sessions[u]
    IN /\ me.pc = "out_update"
       /\ spare_parts' = StockAfter(me.pid, 0 - me.qty)
       /\ sessions' = [sessions EXCEPT ![u].pc = "out_txn"]
       /\ lastOp' = Op("SessOutUpdate", TRUE)
       /\ UNCHANGED <<work_orders, wo_parts, stock_txn, sqlite_sequence>>
       /\ UNCHANGED <<SessFrame, failures>>

\* "Tambah Part ke WO": INSERT INTO stock_txn
SessOutTxn(u) ==
    LET me == sessions[u]
    IN /\ me.pc = "out_txn"
       /\ IF PartStored(me.pid) /\ WOStored(me.wo_id)
            THEN /\ stock_txn' = stock_txn \cup
                       {TxnRow(NextId("stock_txn"), me.pid, "OUT", me.qty, me.wo_id)}
                 /\ sqlite_sequence' = [sqlite_sequence EXCEPT !["stock_txn"] = @ + 1]
                 /\ lastOp' = Op("ConsumePart", TRUE)
            ELSE \* sqlite3.IntegrityError: FOREIGN KEY constraint failed
                 /\ UNCHANGED <<stock_txn, sqlite_sequence>>
                 /\ lastOp' = Op("ConsumePart", FALSE)
       /\ sessions' = [sessions EXCEPT ![u] = Idle]
       /\ UNCHANGED <<work_orders, spare_parts, wo_parts>>
       /\ UNCHANGED <<SessFrame, failures>>

\* a variant that undoes the stock decrement of the handler it ends
SessFailRollback(u) ==
    LET me == sessions[u]
    IN /\ me.pc # "idle"
       /\ failures < MaxFail
       /\ failures' = failures + 1
       /\ spare_parts' = IF me.pc = "out_txn" THEN StockAfter(me.pid, me.qty)
                                              ELSE spare_parts
       /\ sessions' = [sessions EXCEPT ![u] = Idle]
       /\ lastOp' = Op("Fail", FALSE)
       /\ UNCHANGED <<work_orders, wo_parts, stock_txn, sqlite_sequence>>
       /\ UNCHANGED SessFrame

\* the next run_query of a handler raises (sqlite3.OperationalError: database
\* is locked, disk I/O error) or the script run is stopped: the exception
\* leaves the handler, what the earlier calls committed stays
SessFail(u) ==
    LET me == sessions[u]
    IN /\ me.pc # "idle"
       /\ failures < MaxFail
       /\ failures' = failures + 1
       /\ sessions' = [sessions EXCEPT ![u] = Idle]
       /\ lastOp' = Op("Fail", FALSE)
       /\ UNCHANGED <<work_orders, spare_parts, wo_parts, stock_txn, sqlite_sequence>>
       /\ UNCHANGED SessFrame

\* ------------------------------------------------- dashboard and lists
\* SELECT ... FROM work_orders WHERE status!='Closed' AND status!='Cancelled'
OpenWO == {w \in work_orders : w.status # "Closed" /\ w.status # "Cancelled"}

\* a variant that leaves out the plans due on the day itself
DuePMBeforeToday ==
    {p \in pm_plans : /\ SqlDate(p.next_due_date) # <<>>
                      /\ SqlDate(p.next_due_date) # DateIso(today)
                      /\ TextLe(SqlDate(p.next_due_date), DateIso(today))}

\* SELECT ... FROM pm_plans WHERE date(next_due_date) <= date('now');
\* date('now') is the day the clock of the model shows
DuePM ==
    {p \in pm_plans : /\ SqlDate(p.next_due_date) # <<>>
                      /\ TextLe(SqlDate(p.next_due_date), DateIso(today))}

\* a variant that also flags a part whose stock has reached the minimum
LowStockPartsAtMinimum == {p \in spare_parts : p.available_stock <= p.minimum_stock}

\* SELECT ... FROM spare_parts WHERE available_stock < minimum_stock
LowStockParts == {p \in spare_parts : p.available_stock < p.minimum_stock}

\* page_dashboard: the metrics c1..c3
Dashboard ==
    /\ screen' = Rendered("Dashboard", "", Cardinality(OpenWO), Cardinality(DuePM),
                          Cardinality(LowStockParts), {})
    /\ lastOp' = Op("Dashboard", TRUE)
    /\ UNCHANGED <<today, work_orders, spare_parts, wo_parts, stock_txn,
                   activity_reports, pm_plans, sqlite_sequence, sb_spare_parts,
                   sessions, failures>>

\* "Kirim Notifikasi WO & PM Due": the two lists of the reminder
Notify ==
    /\ screen' = Rendered("Reminder", "", Cardinality(OpenWO), Cardinality(DuePM),
                          0, DuePM)
    /\ lastOp' = Op("Notify", TRUE)
    /\ UNCHANGED <<today, work_orders, spare_parts, wo_parts, stock_txn,
                   activity_reports, pm_plans, sqlite_sequence, sb_spare_parts,
                   sessions, failures>>

\* str.contains(keyword, case=False): of the texts of the model, none is
\* part of another one, so a text contains the keyword when it is the keyword
Contains(text, keyword) == text = keyword

\* the table of the Supabase page after the search box
FilterDf(df, keyword) ==
    IF keyword # ""
      THEN SelectSeq(df, LAMBDA r : Contains(r.nama_barang, keyword)
                                      \/ Contains(r.kode_barang, keyword))
      ELSE df

\* df[df["available_stock"] < df["minimum_stock"]]
low_stock(df) == SelectSeq(df, LAMBDA r : r.available_stock < r.minimum_stock)

\* one run of the Supabase page: load, search box, low stock alert
SbPage ==
    \E keyword \in Keywords :
        /\ screen' = Rendered("Spare Parts", keyword, 0, 0, 0,
                              low_stock(FilterDf(sb_spare_parts, keyword)))
        /\ lastOp' = Op("SbPage", TRUE)
        /\ UNCHANGED <<today, work_orders, spare_parts, wo_parts, stock_txn,
                       activity_reports, pm_plans, sqlite_sequence, sb_spare_parts,
                       sessions, failures>>

\* -------------------------------------------------------- specifications
Next ==
    \/ Tick \/ CreateWO \/ UpdateWO
    \/ PartTambah \/ PartUpdate \/ PartHapus \/ ExcelImport
    \/ StockIn \/ ConsumePart
    \/ SaveActivity
    \/ SbSimpan \/ SbHapus
    \/ \E t \in Tables : CsvImport(t)
    \/ Dashboard \/ Notify \/ SbPage
    \/ \E u \in Users :
          \/ SessCreateBegin(u) \/ SessCreateInsert(u)
          \/ SessInBegin(u) \/ SessInUpdate(u) \/ SessInTxn(u)
          \/ SessOutBegin(u) \/ SessOutWOPart(u) \/ SessOutUpdate(u) \/ SessOutTxn(u)
          \/ SessFail(u)

Spec == Init /\ [][Next]_vars

\* the work-order page
NextWO == Tick \/ CreateWO \/ UpdateWO \/ CsvImport("work_orders")

SpecWO == Init /\ [][NextWO]_vars

\* the inventory page and the stock ledger, explored on day 0 next to at most
\* MaxWOInv work orders, which are created and closed but not edited further
InvBound == today = 0 /\ sqlite_sequence["work_orders"] <= MaxWOInv

CreateWOToday == CreateWO /\ InvBound'

CloseWO == \E w \in work_orders : UpdateWOWith(w, "Closed", <<0, 1400>>, <<1, 60>>, 0)

NextInv ==
    \/ CreateWOToday \/ CloseWO
    \/ PartTambah \/ PartUpdate \/ PartHapus \/ ExcelImport
    \/ StockIn \/ ConsumePart
    \/ \E t \in {"work_orders", "spare_parts", "stock_txn", "wo_parts"} : CsvImport(t)

SpecInv == Init /\ [][NextInv]_vars

\* the activity page
NextAct == SaveActivity \/ CsvImport("activity_reports")

SpecAct == Init /\ [][NextAct]_vars

\* the ways a spare part is saved
NextParts == PartTambah \/ PartUpdate \/ PartHapus \/ ExcelImport \/ SbSimpan \/ SbHapus

SpecParts == Init /\ [][NextParts]_vars

\* low stock: the inventory form, stock IN and consumption on parts named
\* Bolt with stock 1 and minimum 1, the Supabase form on parts named Bolt with
\* minimum 1, and the two pages that report low stock
PartTambahLow == \E kode \in Kodes : PartTambahWith(kode, "Bolt", 1, 1)

SbSimpanLow ==
    \E kode \in {"K1", "K2"}, stok \in SbStocks : SbSimpanWith(kode, "Bolt", stok, 1)

NextLow ==
    \/ PartTambahLow \/ CreateWOToday \/ StockIn \/ ConsumePart \/ Dashboard
    \/ SbSimpanLow \/ SbPage

SpecLow == Init /\ [][NextLow]_vars

\* preventive maintenance: plans come in through the CSV import, the clock
\* moves on, the dashboard and the reminder report the plans that are due
NextPM == Tick \/ CsvImport("pm_plans") \/ Dashboard \/ Notify

SpecPM == Init /\ [][NextPM]_vars

\* the forms with a required text field
NextForms == Tick \/ CreateWO \/ PartTambah \/ SbSimpan

SpecForms == Init /\ [][NextForms]_vars

\* two sessions that create work orders
NextRace == Tick \/ \E u \in Users : SessCreateBegin(u) \/ SessCreateInsert(u)

SpecRace == Init /\ [][NextRace]_vars

\* two sessions that book receipts and consumptions of parts named Bolt
SessStock(u) ==
    \/ SessInBegin(u) \/ SessInUpdate(u) \/ SessInTxn(u)
    \/ SessOutBegin(u) \/ SessOutWOPart(u) \/ SessOutUpdate(u) \/ SessOutTxn(u)

NextSess == PartTambahLow \/ CreateWOToday \/ \E u \in Users : SessStock(u)

SpecSess == Init /\ [][NextSess]_vars

\* ... and whose handlers may fail half-way
NextFail == NextSess \/ \E u \in Users : SessFail(u)

SpecFail == Init /\ [][NextFail]_vars

\* ================================================================ claims
\* the number the spec gives the k-th work order of day d
WoNo(d, k) == <<"W", "O", "-">> \o StrfYmd(d) \o <<"-">> \o ZeroPad(Digits(k), 3)

\* does the timestamp ts fall on day d ?
OnDay(ts, d) == LikePrefix(ts, DateIso(d))

Max0(x) == IF x < 0 THEN 0 ELSE x

\* C1: a creation on a day on which k-1 stored work orders were created
\* stores a new work order numbered WO-{YYYYMMDD}-{k:03d}, so the numbers
\* of a day are 001, 002, 003, ... under sequential creation.
C1_NumberedInSequence ==
    [][lastOp'.op = "CreateWO" =>
         LET k == 1 + Cardinality({w \in work_orders : OnDay(w.created_at, today)})
         IN \E w \in work_orders' \ work_orders : w.wo_no = WoNo(today, k)]_vars

\* C8: every creation that goes through adds exactly one work order, with
\* status Open, the generated wo_no, cost 0 and downtime_hours 0, whatever
\* was typed into the form.
C8_NewWOStartsOpen ==
    [][(lastOp'.op = "CreateWO" /\ lastOp'.ok) =>
         \E w \in work_orders' \ work_orders :
            /\ work_orders' = work_orders \cup {w}
            /\ w.status = "Open"
            /\ w.wo_no = make_wo_no(today)
            /\ LikePrefix(w.wo_no, <<"W", "O", "-">> \o StrfYmd(today) \o <<"-">>)
            /\ w.cost = 0
            /\ w.downtime_hours = 0]_vars

\* C8 witness: a work order with a non-empty title has just been created
C8_Witness ==
    /\ lastOp = Op("CreateWO", TRUE)
    /\ \E w \in work_orders :
          w.id = sqlite_sequence["work_orders"] /\ w.title # "" /\ w.status = "Open"

\* C9: every updated work order holds downtime_hours = max(0, (end - start)
\* in hours) for the start and end it holds, and downtime_hours is never
\* negative.
C9_DowntimeClamped ==
    \A w \in work_orders :
        /\ w.downtime_hours >= 0
        /\ (w.start_time # <<>> /\ w.end_time # <<>>) =>
              w.downtime_hours =
                Max0(RoundHundredths(Minutes(w.end_time) - Minutes(w.start_time)))

\* C10: every activity report holds duration_hours = (end - start) in hours
\* rounded to 2 decimals when start <= end, and 0.0 when end is before
\* start; a reversed pair never holds a positive duration.
C10_DurationClamped ==
    \A a \in activity_reports :
        IF Minutes(a.start_time) <= Minutes(a.end_time)
          THEN a.duration_hours =
                 RoundHundredths(Minutes(a.end_time) - Minutes(a.start_time))
          ELSE a.duration_hours = 0

StockOf(parts, pid) == (CHOOSE p \in parts : p.id = pid).available_stock

\* the step wrote exactly the stock_txn row t
AppendsTxn(t) == t \notin stock_txn /\ stock_txn' = stock_txn \cup {t}

\* the step changed the stock of part pid by delta and nothing else of spare_parts
MovesStock(pid, delta) ==
    \E p \in spare_parts :
        /\ p.id = pid
        /\ spare_parts' =
             (spare_parts \ {p}) \cup {[p EXCEPT !.available_stock = @ + delta]}

WOPartCountsMatch ==
    \A w \in work_orders :
        Cardinality({r \in wo_parts : r.wo_id = w.id}) =
        Cardinality({t \in stock_txn : t.txn_type = "OUT" /\ t.wo_id = w.id})

\* C2: a part consumption of qty > 0 from a stock >= 0 leaves
\* max(0, stock - qty), and available_stock is never negative.
C2_OutClampsAtZero ==
    /\ [][lastOp'.op = "ConsumePart" =>
            \E t \in stock_txn' \ stock_txn :
                (t.qty > 0 /\ StockOf(spare_parts, t.part_id) >= 0) =>
                    StockOf(spare_parts', t.part_id) =
                        Max0(StockOf(spare_parts, t.part_id) - t.qty)]_vars
    /\ [](\A p \in spare_parts : p.available_stock >= 0)

\* C3: a stock receipt adds its qty to the available_stock of the part, leaves
\* every other part alone, and appends exactly one stock_txn row of type IN
\* with that qty and no work-order reference.
C3_StockInAddsQty ==
    [][lastOp'.op = "StockIn" =>
         \E t \in stock_txn' \ stock_txn :
            /\ AppendsTxn(t)
            /\ t.txn_type = "IN"
            /\ t.wo_id = 0
            /\ MovesStock(t.part_id, t.qty)
            /\ UNCHANGED wo_parts]_vars

\* C3 witness: a receipt of qty > 0 has just been booked on a stored part
C3_Witness ==
    /\ lastOp = Op("StockIn", TRUE)
    /\ \E t \in stock_txn, p \in spare_parts :
          /\ t.id = sqlite_sequence["stock_txn"]
          /\ t.txn_type = "IN" /\ t.qty > 0
          /\ p.id = t.part_id /\ p.available_stock >= t.qty

\* C4: no step of the application removes or changes a stock_txn row.
C4_AppendOnly == [][stock_txn \subseteq stock_txn']_vars

\* C4 as amended: a stock_txn row is removed or changed only by a part
\* delete, an Excel inventory import or a CSV import; part add, part update,
\* stock IN, part consumption, work-order creation and work-order update
\* leave every row written before in place, unchanged.
C4_AppendOnlyButDeleteAndImport ==
    [][lastOp'.op \notin {"PartHapus", "ExcelImport", "CsvImport"} =>
         stock_txn \subseteq stock_txn']_vars

\* C4 witness: a part with ledger rows has just been updated through the form
C4_Witness ==
    /\ lastOp = Op("PartUpdate", TRUE)
    /\ \E t \in stock_txn : \E p \in spare_parts : p.id = t.part_id

\* C6: a part consumption adds exactly one wo_parts row and exactly one OUT
\* stock_txn row with the same part, qty and work order, and takes qty off
\* the stock once; so every work order has as many wo_parts rows as OUT
\* stock_txn rows.
C6_OnePairPerConsumption ==
    /\ [][lastOp'.op = "ConsumePart" =>
            \E r \in wo_parts' \ wo_parts :
                /\ wo_parts' = wo_parts \cup {r}
                /\ AppendsTxn(TxnRow(sqlite_sequence'["stock_txn"], r.part_id,
                                     "OUT", r.qty, r.wo_id))
                /\ MovesStock(r.part_id, 0 - r.qty)]_vars
    /\ []WOPartCountsMatch

\* C6 as amended: the pairing holds for each consumption, and the counts of a
\* work order stay equal under part add, part update, stock IN, consumption,
\* work-order creation and work-order update; a part delete, an Excel import or a CSV import
\* can remove the OUT rows and leave the wo_parts rows (or the reverse).
C6_OnePairPerConsumptionKept ==
    /\ [][lastOp'.op = "ConsumePart" =>
            \E r \in wo_parts' \ wo_parts :
                /\ wo_parts' = wo_parts \cup {r}
                /\ r.wo_id \in {w.id : w \in work_orders}
                /\ AppendsTxn(TxnRow(sqlite_sequence'["stock_txn"], r.part_id,
                                     "OUT", r.qty, r.wo_id))
                /\ MovesStock(r.part_id, 0 - r.qty)]_vars
    /\ [][(lastOp'.op \notin {"PartHapus", "ExcelImport", "CsvImport"}
            /\ WOPartCountsMatch) => WOPartCountsMatch']_vars

\* C6 witness: a second consumption has just been booked on a work order
C6_Witness ==
    /\ lastOp = Op("ConsumePart", TRUE)
    /\ \E r \in wo_parts :
          /\ r.id = sqlite_sequence["wo_parts"] /\ r.qty > 0
          /\ Cardinality({q \in wo_parts : q.wo_id = r.wo_id}) = 2
          /\ Cardinality({t \in stock_txn : t.txn_type = "OUT" /\ t.wo_id = r.wo_id}) = 2

\* C7: every stored stock_txn row and every stored wo_parts row has qty > 0.
C7_QtyPositive ==
    /\ \A t \in stock_txn : t.qty > 0
    /\ \A r \in wo_parts : r.qty > 0

Stored(rows, kode) == \E p \in rows : p.kode_barang = kode

\* rows holds exactly one record for kode, and it carries the saved values
HoldsOnly(rows, kode, nama, stock, min) ==
    \E p \in rows :
        /\ p.kode_barang = kode /\ p.nama_barang = nama
        /\ p.available_stock = stock /\ p.minimum_stock = min
        /\ \A q \in rows : q.kode_barang = kode => q = p

SbHoldsOnly(tbl, kode, nama, stock, min) ==
    /\ Cardinality({i \in 1..Len(tbl) : tbl[i].kode_barang = kode}) = 1
    /\ \E i \in 1..Len(tbl) : tbl[i] = SbRow(kode, nama, stock, min)

OnePerKode ==
    /\ \A p, q \in spare_parts : p.kode_barang = q.kode_barang => p = q
    /\ \A i, j \in 1..Len(sb_spare_parts) :
          sb_spare_parts[i].kode_barang = sb_spare_parts[j].kode_barang => i = j

\* C5: a part save (inventory form, Excel import, tambah_atau_update_part)
\* of a kode_barang that is already stored goes through and leaves exactly
\* one record for that kode_barang, holding the values just saved; no table
\* ever holds two records with one kode_barang.
C5_SaveIsUpsert ==
    /\ [][\A kode \in Kodes \cup SbKodes, nama \in Names \cup SbNames,
             stock \in Stocks, min \in MinStocks :
            /\ (PartTambahWith(kode, nama, stock, min) /\ Stored(spare_parts, kode)) =>
                  lastOp'.ok /\ HoldsOnly(spare_parts', kode, nama, stock, min)
            /\ (ExcelImportOf(<<[kode |-> kode, nama |-> nama, stock |-> stock, min |-> min]>>)
                  /\ Stored(spare_parts, kode)) =>
                  lastOp'.ok /\ HoldsOnly(spare_parts', kode, nama, stock, min)
            /\ (SbSimpanWith(kode, nama, stock, min)
                  /\ Stored(SbRows(sb_spare_parts), kode)) =>
                  lastOp'.ok /\ SbHoldsOnly(sb_spare_parts', kode, nama, stock, min)]_vars
    /\ []OnePerKode

\* C5 as amended: tambah_atau_update_part (called with a non-empty
\* nama_barang) and the Excel import are upserts: a save of a stored
\* kode_barang goes through and leaves exactly one record for it, holding the
\* values just saved; mode Tambah of the inventory form is a plain insert,
\* which the store rejects for a stored kode_barang, leaving the table as it
\* was; no table ever holds two records with one kode_barang.
C5_UpsertOrReject ==
    /\ [][\A kode \in Kodes \cup SbKodes, nama \in Names \cup SbNames,
             stock \in Stocks, min \in MinStocks :
            /\ (PartTambahWith(kode, nama, stock, min) /\ Stored(spare_parts, kode)) =>
                  ~lastOp'.ok /\ spare_parts' = spare_parts
            /\ (ExcelImportOf(<<[kode |-> kode, nama |-> nama, stock |-> stock, min |-> min]>>)
                  /\ Stored(spare_parts, kode)) =>
                  lastOp'.ok /\ HoldsOnly(spare_parts', kode, nama, stock, min)
            /\ (SbSimpanWith(kode, nama, stock, min) /\ nama # ""
                  /\ Stored(SbRows(sb_spare_parts), kode)) =>
                  lastOp'.ok /\ SbHoldsOnly(sb_spare_parts', kode, nama, stock, min)]_vars
    /\ []OnePerKode

\* C5 witness: tambah_atau_update_part has just saved a kode_barang that was
\* stored under another nama_barang, next to a record of another kode_barang
C5_Witness ==
    /\ lastOp = OpDup("SbSimpan", TRUE, TRUE)
    /\ Len(sb_spare_parts) = 2

\* is p one unit or more below its minimum ?
Below(p) == p.minimum_stock - p.available_stock >= 1

\* C11: the low-stock count of the dashboard is the number of parts below
\* their minimum, and the low-stock alert lists exactly the parts below
\* their minimum: a part at its minimum is not flagged, a part one unit
\* below is.
C11_LowStockExact ==
    /\ lastOp.op = "Dashboard" =>
          screen.low_stock = Cardinality({p \in spare_parts : Below(p)})
    /\ lastOp.op = "SbPage" =>
          SbRows(screen.rows) = {r \in SbRows(sb_spare_parts) : Below(r)}

\* C11 as amended: the count of the dashboard is the number of parts below
\* their minimum; the alert lists exactly the parts below their minimum among
\* those the search box lets through (all parts when the box is empty).
C11_LowStockOfShown ==
    /\ lastOp.op = "Dashboard" =>
          screen.low_stock = Cardinality({p \in spare_parts : Below(p)})
    /\ lastOp.op = "SbPage" =>
          SbRows(screen.rows) =
            {r \in SbRows(sb_spare_parts) :
                /\ Below(r)
                /\ screen.keyword # "" =>
                      (r.nama_barang = screen.keyword \/ r.kode_barang = screen.keyword)}

\* C11 witness: the dashboard has just counted one part, which a consumption
\* took one unit below its minimum, next to a part that is at its minimum
C11_Witness ==
    /\ lastOp = Op("Dashboard", TRUE)
    /\ screen.low_stock = 1
    /\ \E p, q \in spare_parts :
          /\ p.available_stock = p.minimum_stock - 1
          /\ \E t \in stock_txn : t.part_id = p.id /\ t.txn_type = "OUT" /\ t.qty = 1
          /\ q.available_stock = q.minimum_stock

\* the day a plan is due, as a day of the clock
DueDay(p) == CHOOSE d \in 0..(MaxDay + 1) : DateIso(d) = p.next_due_date

\* C12: the "PM Due / Overdue" metric counts, and the reminder lists, exactly
\* the plans whose next_due_date is today or earlier: a plan due today is
\* counted, a plan due tomorrow is not.
C12_DueIffNotAfterToday ==
    /\ lastOp.op = "Dashboard" =>
          screen.overdue_pm = Cardinality({p \in pm_plans : DueDay(p) <= today})
    /\ lastOp.op = "Notify" =>
          screen.rows = {p \in pm_plans : DueDay(p) <= today}

\* C12 witness: the dashboard has just counted one plan, the one due today,
\* and left out the one due tomorrow
C12_Witness ==
    /\ lastOp = Op("Dashboard", TRUE)
    /\ screen.overdue_pm = 1
    /\ \E p, q \in pm_plans : DueDay(p) = today /\ DueDay(q) = today + 1

BothCounted(u, v) ==
    /\ u # v
    /\ sessions[u].pc = "wo_insert" /\ sessions[v].pc = "wo_insert"
    /\ sessions[u].day = sessions[v].day
    /\ sessions[u].seen = sqlite_sequence["work_orders"]
    /\ sessions[v].seen = sqlite_sequence["work_orders"]

\* C15: two creations of one day that both run make_wo_no before either of
\* them inserts hold the same wo_no.
C15_RaceSameNumber ==
    \A u, v \in Users : BothCounted(u, v) => sessions[u].wo_no = sessions[v].wo_no

\* C15 witness: two sessions are about to insert, both holding the number
\* 001 of the day
C15_Witness ==
    \E u, v \in Users :
        /\ BothCounted(u, v)
        /\ sessions[u].wo_no = WoNo(today, 1)
        /\ sessions[v].wo_no = WoNo(today, 1)

RECURSIVE SumQty(_)
\* the sum of the qty of a set of rows
SumQty(rows) ==
    IF rows = {} THEN 0
    ELSE LET r == CHOOSE x \in rows : TRUE IN r.qty + SumQty(rows \ {r})

\* IN quantities less OUT quantities of the rows of part pid in txns
LedgerOf(txns, pid) ==
    SumQty({t \in txns : t.part_id = pid /\ t.txn_type = "IN"})
      - SumQty({t \in txns : t.part_id = pid /\ t.txn_type = "OUT"})

Ledger(pid) == LedgerOf(stock_txn, pid)

\* the adjustments of part pid that have changed the stock and whose ledger
\* row is still to be written
Underway(pid, at) ==
    {[u |-> u, qty |-> sessions[u].qty] :
        u \in {v \in Users : sessions[v].pc = at /\ sessions[v].pid = pid}}

\* what the stock of p was before the adjustments booked or under way
Balance(p) ==
    p.available_stock - Ledger(p.id)
      - SumQty(Underway(p.id, "in_txn")) + SumQty(Underway(p.id, "out_txn"))

\* C16: however the statements of two stock adjustments of one part
\* interleave, both take effect: the stock is the stock the part was created
\* with, plus every receipt, less every consumption, that has run its UPDATE.
C16_NoLostUpdate == \A p \in spare_parts : Balance(p) \in Stocks

\* C16 witness: two sessions have both run the UPDATE of a consumption of one
\* unit of the same part, and neither has written its ledger row yet
C16_Witness ==
    \E u, v \in Users : \E p \in spare_parts :
        /\ u # v
        /\ sessions[u].pc = "out_txn" /\ sessions[v].pc = "out_txn"
        /\ sessions[u].pid = p.id /\ sessions[v].pid = p.id
        /\ sessions[u].qty = 1 /\ sessions[v].qty = 1
        /\ p.available_stock = sessions[u].stock_seen - 2

\* C17: a handler that fails half-way takes nothing back: what its earlier
\* statements committed stays as it is, in every table.
C17_NoRollback ==
    [][lastOp'.op = "Fail" =>
         UNCHANGED <<work_orders, spare_parts, wo_parts, stock_txn, sqlite_sequence>>]_vars

\* C17 witness: a consumption has failed after its UPDATE: the stock is one
\* unit down, the wo_parts row is there, the ledger has no row for the part
C17_Witness ==
    /\ lastOp = Op("Fail", FALSE)
    /\ \A u \in Users : sessions[u].pc = "idle"
    /\ \E p \in spare_parts :
          /\ p.available_stock = 0
          /\ \E r \in wo_parts : r.part_id = p.id /\ r.qty = 1
          /\ \A t \in stock_txn : t.part_id # p.id

\* C18: the status of every stored work order is one of the five, and the
\* update can take every work order from the status it has to each of the
\* five, a Closed or Cancelled one included.
C18_AnyToAny ==
    \A w \in work_orders :
        /\ w.status \in Statuses
        /\ \A new_status \in Statuses :
              ENABLED (/\ UpdateWOWith(w, new_status, <<0, 1400>>, <<1, 60>>, 0)
                       /\ \E x \in work_orders' : x.id = w.id /\ x.status = new_status)

\* C18 witness: an update has just been saved, one work order is Closed and
\* another one, which has been updated, is Open
C18_Witness ==
    /\ lastOp = Op("UpdateWO", TRUE)
    /\ \E w, x \in work_orders :
          /\ w.status = "Closed"
          /\ x.status = "Open" /\ x.end_time # <<>>

\* C19: no two stored work orders have the same wo_no; a creation whose
\* number is already stored is rejected, adds no work order and changes none.
C19_WoNoUnique ==
    /\ [](\A w, x \in work_orders : w.wo_no = x.wo_no => w = x)
    /\ [][(lastOp'.op = "CreateWO"
            /\ make_wo_no(today) \in {w.wo_no : w \in work_orders}) =>
              (~lastOp'.ok /\ work_orders' = work_orders)]_vars

\* C19 witness: a creation has just been rejected, the work order that holds
\* its number is stored
C19_Witness ==
    /\ lastOp = Op("CreateWO", FALSE)
    /\ \E w \in work_orders : w.wo_no = make_wo_no(today)

\* C20: between two handlers, the stock of every part is the stock it was
\* created with, plus the IN quantities, less the OUT quantities of its
\* stock_txn rows, whichever handlers have run (part edits and Excel / CSV
\* imports among them).
C20_Reconciled ==
    \A p \in spare_parts : p.available_stock - LedgerOf(stock_txn, p.id) \in Stocks

\* C20 as amended: part add, stock IN, part consumption, work-order creation
\* and work-order update keep the equation: a new part has no stock_txn rows,
\* and the stock of a stored part less its IN and plus its OUT quantities
\* stays what it was.  A part edit in mode Update, an Excel import and a CSV
\* import can break it.
C20_ReconciledByLedgerSteps ==
    [][lastOp'.op \in {"PartTambah", "StockIn", "ConsumePart", "CreateWO", "UpdateWO"} =>
         \A q \in spare_parts' :
            IF \E p \in spare_parts : p.id = q.id
              THEN \A p \in spare_parts : p.id = q.id =>
                      q.available_stock - LedgerOf(stock_txn', q.id)
                        = p.available_stock - LedgerOf(stock_txn, p.id)
              ELSE LedgerOf(stock_txn', q.id) = 0
                   /\ \A t \in stock_txn' : t.part_id # q.id]_vars

\* C20 witness: a part has one receipt and one consumption of one unit booked
\* and holds the stock it was created with
C20_Witness ==
    /\ lastOp = Op("ConsumePart", TRUE)
    /\ \E p \in spare_parts :
          /\ \E t \in stock_txn : t.part_id = p.id /\ t.txn_type = "IN" /\ t.qty = 1
          /\ \E t \in stock_txn : t.part_id = p.id /\ t.txn_type = "OUT" /\ t.qty = 1
          /\ p.available_stock \in Stocks

====
